---- MODULE Spec2Model ----
(***************************************************************************)
(* Variable-Increment Counting Bloom Filter (vicbf/vicbf.py).              *)
(*                                                                         *)
(* The filter object is the record `self` (fields named as in the class).  *)
(* The counter store self.BF is a Python dict: a function whose DOMAIN is  *)
(* the set of stored slot indices.  SHA-1 is a black box: a key is         *)
(* identified by the digests it produces, one pair per hash index.         *)
(***************************************************************************)
EXTENDS Integers, Sequences, FiniteSets, TLC

\* ---------------------------------------------------------------- bounds
MaxHeld == 2           \* keys the caller holds in the filter at a time
MaxIllegal == 1        \* remove calls on keys the caller does not hold
MaxRepeat == 2         \* j, the length of a run of inserts of one key
MaxTwin == 2           \* calls applied alike to a filter and its round trip

\* <<slots, hash_functions, vibase, bpc>> of the filters constructed
\* (vibase = 4 and bpc = 8 are the defaults)
ConfigsDrawn ==
    {<<1, 1, 2, 2>>, <<1, 1, 2, 3>>, <<1, 1, 4, 8>>, <<1, 1, 16, 4>>,
     <<1, 2, 2, 2>>, <<1, 2, 2, 3>>, <<1, 2, 4, 4>>,
     <<2, 1, 2, 2>>, <<2, 1, 2, 3>>, <<2, 1, 4, 8>>,
     <<3, 1, 2, 2>>, <<3, 1, 2, 3>>, <<3, 1, 4, 4>>, <<3, 1, 4, 2>>,
     <<2, 2, 2, 2>>, <<2, 2, 16, 4>>}

\* the shapes <<slots, hash_functions>> whose keys take both sampled values
\* of the second digest mod vibase, 0 and vibase - 1; the keys of the other
\* shapes all have a second digest that is 0 mod vibase
BothDigestShapes == {<<1, 1>>, <<1, 2>>, <<2, 1>>}

\* ------------------------------------------------------ program constants
MODE_DUMP_ALL == 0
MODE_SELECTIVE == 1
VibaseChoices == {2, 4, 8, 16}

None == << >>
NoFilter == [slots |-> 0, hash_functions |-> 0, L |-> 0, bpc |-> 0, bpi |-> 0,
             entries |-> 0, BF |-> << >>]
EmptyBF == [s \in {} |-> 0]

\* ------------------------------------------------------------ arithmetic
RECURSIVE CeilLog2From(_, _, _)
CeilLog2From(n, e, p) == IF p >= n THEN e ELSE CeilLog2From(n, e + 1, 2 * p)

\* ceil(log(slots, 2))
CeilLog2(n) == CeilLog2From(n, 0, 1)

\* 2 ** self.bpc - 1
MaxCounter(self) == 2 ^ self.bpc - 1

\* dict assignment  BF[slot] = value
Put(BF, slot, value) ==
    [s \in (DOMAIN BF) \cup {slot} |-> IF s = slot THEN value ELSE BF[s]]

\* del BF[slot]
Del(BF, slot) == [s \in (DOMAIN BF) \ {slot} |-> BF[s]]

\* ----------------------------------------------------------- constructor
\* VICBF without the test of vibase
VICBFAnyVibase(slots, hash_functions, vibase, bpc) ==
    IF slots < 1 \/ hash_functions < 1
    THEN [raised |-> "ValueError", self |-> NoFilter]
    ELSE [raised |-> "none",
          self |-> [slots |-> slots, hash_functions |-> hash_functions,
                    L |-> vibase, bpc |-> bpc, bpi |-> CeilLog2(slots),
                    entries |-> 0, BF |-> EmptyBF]]

VICBF(slots, hash_functions, vibase, bpc) ==
    IF slots < 1 \/ hash_functions < 1 \/ vibase \notin VibaseChoices
    THEN [raised |-> "ValueError", self |-> NoFilter]
    ELSE [raised |-> "none",
          self |-> [slots |-> slots, hash_functions |-> hash_functions,
                    L |-> vibase, bpc |-> bpc, bpi |-> CeilLog2(slots),
                    entries |-> 0, BF |-> EmptyBF]]

\* ------------------------------------------------------- hash derivation
\* A key is a function from the hash index i to the pair of SHA-1 digests
\* <<int(sha1(key + i)), int(sha1(-i + key))>>.
DlDigests(self) ==
    {d \in 0..(self.L - 1) :
        \/ d = 0
        \/ d = self.L - 1 /\ <<self.slots, self.hash_functions>> \in BothDigestShapes}

Keys(self) ==
    [0..(self.hash_functions - 1) -> (0..(self.slots - 1)) \X DlDigests(self)]

calculate_slot_and_increment(self, key, i) ==
    LET slot_index == key[i][1] % self.slots
        dl_index == key[i][2] % self.L
        increment == self.L + dl_index
    IN  <<slot_index, increment>>

\* ----------------------------------------------------------------- insert
\* InsertStep storing the increment over the counter it finds
InsertStepOverwrite(self, BF, slot_index, increment) ==
    IF slot_index \in DOMAIN BF
          /\ BF[slot_index] + increment >= 2 ^ self.bpc - 1
    THEN Put(BF, slot_index, 2 ^ self.bpc - 1)
    ELSE Put(BF, slot_index, increment)

\* one iteration of the loop of insert: the try/except around the increment
InsertStep(self, BF, slot_index, increment) ==
    IF slot_index \in DOMAIN BF
    THEN IF BF[slot_index] + increment >= 2 ^ self.bpc - 1
         THEN Put(BF, slot_index, 2 ^ self.bpc - 1)
         ELSE Put(BF, slot_index, BF[slot_index] + increment)
    ELSE Put(BF, slot_index, increment)                          \* KeyError

RECURSIVE InsertLoop(_, _, _, _)
InsertLoop(self, key, BF, i) ==
    IF i = self.hash_functions THEN BF
    ELSE LET si == calculate_slot_and_increment(self, key, i)
         IN  InsertLoop(self, key, InsertStep(self, BF, si[1], si[2]), i + 1)

insert(self, key) ==
    IF key = None
    THEN [raised |-> "ValueError", self |-> self]
    ELSE [raised |-> "none",
          self |-> [self EXCEPT !.BF = InsertLoop(self, key, self.BF, 0),
                                !.entries = self.entries + 1]]

\* ----------------------------------------------------------------- remove
\* RemoveStep storing a counter of 0 instead of deleting the entry
RemoveStepKeepZero(self, BF, slot_index, decrement) ==
    IF slot_index \notin DOMAIN BF
    THEN [raised |-> "ValueError", BF |-> BF]
    ELSE IF BF[slot_index] = 2 ^ self.bpc - 1
    THEN [raised |-> "none", BF |-> BF]
    ELSE IF BF[slot_index] - decrement < 0
    THEN [raised |-> "ValueError", BF |-> BF]
    ELSE [raised |-> "none",
          BF |-> Put(BF, slot_index, BF[slot_index] - decrement)]

\* RemoveStep without the test for a saturated counter
RemoveStepNoFreeze(self, BF, slot_index, decrement) ==
    IF slot_index \notin DOMAIN BF
    THEN [raised |-> "ValueError", BF |-> BF]
    ELSE IF BF[slot_index] - decrement < 0
    THEN [raised |-> "ValueError", BF |-> BF]
    ELSE IF BF[slot_index] - decrement = 0
    THEN [raised |-> "none", BF |-> Del(BF, slot_index)]
    ELSE [raised |-> "none",
          BF |-> Put(BF, slot_index, BF[slot_index] - decrement)]

\* one iteration of the loop of remove: the counters it leaves, and the
\* ValueError it raises
RemoveStep(self, BF, slot_index, decrement) ==
    IF slot_index \notin DOMAIN BF
    THEN [raised |-> "ValueError", BF |-> BF]                    \* KeyError
    ELSE IF BF[slot_index] = 2 ^ self.bpc - 1
    THEN [raised |-> "none", BF |-> BF]                          \* continue
    ELSE IF BF[slot_index] - decrement < 0
    THEN [raised |-> "ValueError", BF |-> BF]
    ELSE IF BF[slot_index] - decrement = 0
    THEN [raised |-> "none", BF |-> Del(BF, slot_index)]
    ELSE [raised |-> "none",
          BF |-> Put(BF, slot_index, BF[slot_index] - decrement)]

\* the loop of remove from iteration i on: it stops at the first raise,
\* with the counters as the earlier iterations left them
RECURSIVE RemoveLoop(_, _, _, _)
RemoveLoop(self, key, BF, i) ==
    IF i = self.hash_functions THEN [raised |-> "none", BF |-> BF]
    ELSE LET si == calculate_slot_and_increment(self, key, i)
             r == RemoveStep(self, BF, si[1], si[2])
         IN  IF r.raised # "none" THEN r
             ELSE RemoveLoop(self, key, r.BF, i + 1)

\* remove counting the entry down before its loop
removeCountsFirst(self, key) ==
    IF key = None
    THEN [raised |-> "ValueError", self |-> self]
    ELSE LET r == RemoveLoop(self, key, self.BF, 0)
         IN  [raised |-> r.raised,
              self |-> [self EXCEPT !.BF = r.BF,
                                    !.entries = self.entries - 1]]

remove(self, key) ==
    IF key = None
    THEN [raised |-> "ValueError", self |-> self]
    ELSE LET r == RemoveLoop(self, key, self.BF, 0)
         IN  IF r.raised = "none"
             THEN [raised |-> "none",
                   self |-> [self EXCEPT !.BF = r.BF,
                                         !.entries = self.entries - 1]]
             ELSE [raised |-> r.raised, self |-> [self EXCEPT !.BF = r.BF]]

\* ------------------------------------------------------------------ query
\* QueryStep without the test for a remainder between 0 and L
QueryStepNoGap(self, slot_index, decrement) ==
    IF slot_index \notin DOMAIN self.BF
    THEN FALSE
    ELSE self.BF[slot_index] - decrement >= 0

\* one iteration of the loop of query: TRUE when it does not return False
QueryStep(self, slot_index, decrement) ==
    IF slot_index \notin DOMAIN self.BF
    THEN FALSE                                                   \* KeyError
    ELSE LET decr_value == self.BF[slot_index] - decrement
         IN  IF decr_value < 0 THEN FALSE
             ELSE IF decr_value > 0 /\ decr_value < self.L THEN FALSE
             ELSE TRUE

RECURSIVE QueryLoop(_, _, _)
QueryLoop(self, key, i) ==
    IF i = self.hash_functions THEN TRUE
    ELSE LET si == calculate_slot_and_increment(self, key, i)
         IN  IF QueryStep(self, si[1], si[2])
             THEN QueryLoop(self, key, i + 1)
             ELSE FALSE

\* query answering False for None instead of raising
queryNoneFalse(self, key) ==
    IF key = None
    THEN [raised |-> "none", ret |-> FALSE]
    ELSE [raised |-> "none", ret |-> QueryLoop(self, key, 0)]

query(self, key) ==
    IF key = None
    THEN [raised |-> "ValueError", ret |-> FALSE]
    ELSE [raised |-> "none", ret |-> QueryLoop(self, key, 0)]

\* the slots of a key: slot_index for i = 0 .. hash_functions - 1
SlotsOf(self, key) ==
    {calculate_slot_and_increment(self, key, i)[1] :
        i \in 0..(self.hash_functions - 1)}

\* ------------------------------------------------------------ size, FPR
size(self) == self.entries

\* Floats are modelled as exact fractions <<numerator, denominator>> in
\* lowest terms with a positive denominator.
RECURSIVE Gcd(_, _)
Gcd(a, b) == IF b = 0 THEN a ELSE Gcd(b, a % b)

Abs(a) == IF a < 0 THEN -a ELSE a

Frac(num, den) ==
    LET g == Gcd(Abs(num), Abs(den))
        sign == IF den < 0 THEN -1 ELSE 1
    IN  <<sign * (num \div g), sign * (den \div g)>>

FSub(x, y) == Frac(x[1] * y[2] - y[1] * x[2], x[2] * y[2])
FMul(x, y) == Frac(x[1] * y[1], x[2] * y[2])

\* pow(x, e) for a whole exponent e; x = 0 with e < 0 is ZeroDivisionError
RECURSIVE FPow(_, _)
FPow(x, e) ==
    IF e = 0 THEN <<1, 1>>
    ELSE IF e < 0 THEN FPow(<<x[2], x[1]>>, -e)
    ELSE FMul(x, FPow(x, e - 1))

RECURSIVE Factorial(_)
Factorial(x) == IF x = 0 THEN 1 ELSE x * Factorial(x - 1)

\* factorial of a negative number raises ValueError: binom = 0
binomial(x, y) ==
    IF x < 0 \/ y < 0 \/ x - y < 0 THEN 0
    ELSE (Factorial(x) \div Factorial(y)) \div Factorial(x - y)

calculate_FPR(slots, entries, hash_functions, vibase) ==
    LET m == slots
        n == IF entries > 0 THEN entries ELSE 0
        k == hash_functions
        L == vibase
        q == Frac(m - 1, m)                                  \* 1.0 - 1.0 / m
    IN  IF q[1] = 0 /\ n * k - 2 < 0
        THEN [raised |-> "ZeroDivisionError", val |-> <<0, 1>>]
        ELSE [raised |-> "none",
              val |-> FPow(
                  FSub(FSub(FSub(<<1, 1>>, FPow(q, n * k)),
                            FMul(FMul(Frac((L - 1) * n * k, L), Frac(1, m)),
                                 FPow(q, n * k - 1))),
                       FMul(FMul(FMul(Frac((L - 1) * (L + 1), 6 * L * L),
                                      <<binomial(n * k, 2), 1>>),
                                 FPow(Frac(1, m), 2)),
                            FPow(q, n * k - 2))),
                  k)]

FPR(self) ==
    calculate_FPR(self.slots, size(self), self.hash_functions, self.L)

\* ---------------------------------------------------------- bitstring
\* pack('uint:w', v): the w bits of v, most significant first.  It raises
\* CreationError when w = 0 or v does not fit w bits.
Fits(w, v) == w >= 1 /\ v >= 0 /\ (w >= 31 \/ v < 2 ^ w)

\* bit j (1 = most significant) of the w-bit field holding v
Bit(w, v, j) == IF w - j >= 31 THEN 0 ELSE (v \div 2 ^ (w - j)) % 2

Uint(w, v) == [j \in 1..w |-> Bit(w, v, j)]

\* read('uint:w'): the value of the bits b[from .. from + w - 1]
RECURSIVE ReadBits(_, _, _, _)
ReadBits(b, from, w, acc) ==
    IF w = 0 THEN acc ELSE ReadBits(b, from + 1, w - 1, 2 * acc + b[from])

ReadUint(b, from, w) == ReadBits(b, from, w, 0)

Drop(b, n) == SubSeq(b, n + 1, Len(b))
Take(b, n) == SubSeq(b, 1, n)

\* ------------------------------------------------------------- serialize
HeaderBits == 44

build_header(self, mode) ==
    IF /\ Fits(1, mode) /\ Fits(3, self.hash_functions) /\ Fits(32, self.slots)
       /\ Fits(4, self.L) /\ Fits(4, self.bpc)
    THEN [raised |-> "none",
          bits |-> Uint(1, mode) \o Uint(3, self.hash_functions)
                   \o Uint(32, self.slots) \o Uint(4, self.L)
                   \o Uint(4, self.bpc)]
    ELSE [raised |-> "CreationError", bits |-> << >>]

\* Lookup reading the slot after the one asked for
LookupNextSlot(BF, slot) == IF slot + 1 \in DOMAIN BF THEN BF[slot + 1] ELSE 0

\* the value written for a slot by the dump of all slots
Lookup(BF, slot) == IF slot \in DOMAIN BF THEN BF[slot] ELSE 0

RECURSIVE DumpAll(_, _)
DumpAll(self, slot) ==
    IF slot = self.slots THEN << >>
    ELSE Uint(self.bpc, Lookup(self.BF, slot)) \o DumpAll(self, slot + 1)

RECURSIVE DumpPairs(_, _)
DumpPairs(self, order) ==
    IF order = << >> THEN << >>
    ELSE Uint(self.bpi, Head(order)) \o Uint(self.bpc, self.BF[Head(order)])
         \o DumpPairs(self, Tail(order))

\* `for slot in self.BF`: the orders a dict may be iterated in
Orders(S) ==
    {o \in [1..Cardinality(S) -> S] :
        \A i, j \in 1..Cardinality(S) : i # j => o[i] # o[j]}

\* the mode the size comparison of serialize selects
SelectMode(self) ==
    IF Cardinality(DOMAIN self.BF) * (self.bpi + self.bpc)
           > self.slots * self.bpc
    THEN MODE_DUMP_ALL
    ELSE MODE_SELECTIVE

serialize(self, order) ==
    LET mode == SelectMode(self)
        header == build_header(self, mode)
    IN  IF header.raised # "none"
        THEN [raised |-> header.raised, mode |-> mode, bits |-> << >>]
        ELSE IF mode = MODE_DUMP_ALL
        THEN IF \A slot \in 0..(self.slots - 1) :
                    Fits(self.bpc, Lookup(self.BF, slot))
             THEN [raised |-> "none", mode |-> mode,
                   bits |-> header.bits \o DumpAll(self, 0)]
             ELSE [raised |-> "CreationError", mode |-> mode, bits |-> << >>]
        ELSE IF \A slot \in DOMAIN self.BF :
                    Fits(self.bpi, slot) /\ Fits(self.bpc, self.BF[slot])
             THEN [raised |-> "none", mode |-> mode,
                   bits |-> header.bits \o DumpPairs(self, order)]
             ELSE [raised |-> "CreationError", mode |-> mode, bits |-> << >>]

\* ----------------------------------------------------------- deserialize
parse_header(serialized) ==
    IF Len(serialized) < HeaderBits
    THEN [raised |-> "ReadError", mode |-> 0, hash_functions |-> 0,
          slots |-> 0, vibase |-> 0, bpc |-> 0]
    ELSE [raised |-> "none",
          mode |-> ReadUint(serialized, 1, 1),
          hash_functions |-> ReadUint(serialized, 2, 3),
          slots |-> ReadUint(serialized, 5, 32),
          vibase |-> ReadUint(serialized, 37, 4),
          bpc |-> ReadUint(serialized, 41, 4)]

\* for i in range(slots): v.BF[i] = serialized.read(fmt)
\* (pos is the number of bits read so far)
RECURSIVE ReadAll(_, _, _, _, _)
ReadAll(v, serialized, pos, BF, i) ==
    IF i = v.slots THEN [raised |-> "none", BF |-> BF]
    ELSE IF v.bpc > Len(serialized) - pos
    THEN [raised |-> "ReadError", BF |-> BF]
    ELSE IF v.bpc = 0 THEN [raised |-> "InterpretError", BF |-> BF]
    ELSE ReadAll(v, serialized, pos + v.bpc,
                 Put(BF, i, ReadUint(serialized, pos + 1, v.bpc)), i + 1)

\* while True: idx, ctr = serialized.readlist(fmt); v.BF[idx] = ctr
RECURSIVE ReadPairs(_, _, _, _)
ReadPairs(v, serialized, pos, BF) ==
    IF v.bpi > Len(serialized) - pos
    THEN [raised |-> "none", BF |-> BF]                  \* ReadError: break
    ELSE IF v.bpi = 0 THEN [raised |-> "InterpretError", BF |-> BF]
    ELSE IF v.bpc > Len(serialized) - pos - v.bpi
    THEN [raised |-> "none", BF |-> BF]                  \* ReadError: break
    ELSE IF v.bpc = 0 THEN [raised |-> "InterpretError", BF |-> BF]
    ELSE ReadPairs(v, serialized, pos + v.bpi + v.bpc,
                   Put(BF, ReadUint(serialized, pos + 1, v.bpi),
                       ReadUint(serialized, pos + v.bpi + 1, v.bpc)))

deserialize(serialized) ==
    LET h == parse_header(serialized)
        c == VICBF(h.slots, h.hash_functions, h.vibase, h.bpc)
        r == IF h.mode = MODE_DUMP_ALL
             THEN ReadAll(c.self, serialized, HeaderBits, EmptyBF, 0)
             ELSE ReadPairs(c.self, serialized, HeaderBits, EmptyBF)
    IN  IF h.raised # "none"
        THEN [raised |-> h.raised, mode |-> h.mode, self |-> NoFilter]
        ELSE IF c.raised # "none"
        THEN [raised |-> c.raised, mode |-> h.mode, self |-> NoFilter]
        ELSE IF r.raised # "none"
        THEN [raised |-> r.raised, mode |-> h.mode, self |-> NoFilter]
        ELSE [raised |-> "none", mode |-> h.mode,
              self |-> [c.self EXCEPT !.BF = r.BF]]

\* deserialize(serialize(self)) for one iteration order of the dict
RoundTrip(self, order) ==
    LET s == serialize(self, order)
    IN  IF s.raised # "none"
        THEN [raised |-> s.raised, mode |-> s.mode, self |-> NoFilter]
        ELSE deserialize(s.bits)

\* ------------------------------------------------------------------ state
VARIABLES
    self,       \* the filter object
    present,    \* the multiset of keys the caller holds in the filter
    illegal,    \* remove calls so far on a key with multiset count 0
    returned,   \* insert calls that returned minus remove calls that
                \* returned, on the object self
    last        \* the last call and its outcome

vars == <<self, present, illegal, returned, last>>

\* a call's record: the operation, what it raised, and what it returned
\* (ret of query, mode and bits of serialize, num of size, val of FPR)
Call(op, raised, ret, mode, bits) ==
    [op |-> op, raised |-> raised, ret |-> ret, mode |-> mode, bits |-> bits,
     num |-> 0, val |-> <<0, 1>>]

NoCall == Call("new", "none", FALSE, 0, << >>)

\* Multiset of keys: a function from the keys held to their counts >= 1.
Count(bag, key) == IF key \in DOMAIN bag THEN bag[key] ELSE 0

RECURSIVE SumOver(_, _)
SumOver(bag, S) ==
    IF S = {} THEN 0
    ELSE LET key == CHOOSE x \in S : TRUE
         IN  bag[key] + SumOver(bag, S \ {key})

Held(bag) == SumOver(bag, DOMAIN bag)

Add(bag, key) == Put(bag, key, Count(bag, key) + 1)

Sub(bag, key) ==
    IF Count(bag, key) <= 1 THEN Del(bag, key)
    ELSE Put(bag, key, bag[key] - 1)

Init ==
    \E cfg \in ConfigsDrawn :
        LET c == VICBF(cfg[1], cfg[2], cfg[3], cfg[4])
        IN  /\ c.raised = "none"
            /\ self = c.self
            /\ present = EmptyBF
            /\ illegal = 0
            /\ returned = 0
            /\ last = NoCall

Insert(key) ==
    /\ Held(present) < MaxHeld
    /\ LET r == insert(self, key)
       IN  /\ self' = r.self
           /\ last' = Call("insert", r.raised, FALSE, 0, << >>)
           /\ present' = IF r.raised = "none" THEN Add(present, key)
                         ELSE present
           /\ returned' = IF r.raised = "none" THEN returned + 1
                          ELSE returned
    /\ UNCHANGED illegal

Remove(key) ==
    /\ (key = None \/ Count(present, key) >= 1 \/ illegal < MaxIllegal)
    /\ LET r == remove(self, key)
       IN  /\ self' = r.self
           /\ last' = Call("remove", r.raised, FALSE, 0, << >>)
           /\ illegal' = IF key = None \/ Count(present, key) >= 1
                         THEN illegal ELSE illegal + 1
           /\ present' = IF r.raised = "none" THEN Sub(present, key)
                         ELSE present
           /\ returned' = IF r.raised = "none" THEN returned - 1
                          ELSE returned

Query(key) ==
    /\ LET r == query(self, key)
       IN  last' = Call("query", r.raised, r.ret, 0, << >>)
    /\ UNCHANGED <<self, present, illegal, returned>>

Size ==
    /\ last' = [Call("size", "none", FALSE, 0, << >>) EXCEPT !.num = size(self)]
    /\ UNCHANGED <<self, present, illegal, returned>>

\* Fpr writing the entry count it uses, max(entries, 0), back to the object
FprClampingEntries ==
    /\ LET r == FPR(self)
       IN  last' = [Call("FPR", r.raised, FALSE, 0, << >>) EXCEPT !.val = r.val]
    /\ self' = [self EXCEPT !.entries = IF self.entries > 0 THEN self.entries
                                        ELSE 0]
    /\ UNCHANGED <<present, illegal, returned>>

Fpr ==
    /\ LET r == FPR(self)
       IN  last' = [Call("FPR", r.raised, FALSE, 0, << >>) EXCEPT !.val = r.val]
    /\ UNCHANGED <<self, present, illegal, returned>>

Serialize ==
    /\ \E order \in Orders(DOMAIN self.BF) :
          LET r == serialize(self, order)
          IN  last' = Call("serialize", r.raised, FALSE, r.mode, r.bits)
    /\ UNCHANGED <<self, present, illegal, returned>>

\* v2 = deserialize(ser), the caller going on with v2
Deserialize ==
    /\ last.op = "serialize"
    /\ last.raised = "none"
    /\ LET r == deserialize(last.bits)
       IN  /\ self' = IF r.raised = "none" THEN r.self ELSE self
           /\ returned' = IF r.raised = "none" THEN 0 ELSE returned
           /\ last' = Call("deserialize", r.raised, FALSE, r.mode, << >>)
    /\ UNCHANGED <<present, illegal>>

\* ------------------------------------------------------ malformed input
\* The buffers a serialized filter is damaged into, one per kind of damage.
Replace(b, from, field) ==
    Take(b, from - 1) \o field \o Drop(b, from - 1 + Len(field))

MalformKinds ==
    {"truncated_header", "truncated_payload", "trailing_partial_pair",
     "index_out_of_range", "repeated_index", "bad_vibase", "bad_bpc"}

\* whether the damage applies to the buffer ser of the filter f
Applies(kind, f, mode, ser) ==
    CASE kind = "truncated_header" -> TRUE
      [] kind = "truncated_payload" -> Len(ser) > HeaderBits
      [] kind = "trailing_partial_pair" ->
             mode = MODE_SELECTIVE /\ f.bpi + f.bpc > 1
      [] kind = "index_out_of_range" ->
             mode = MODE_SELECTIVE /\ f.bpi >= 1 /\ f.slots < 2 ^ f.bpi
      [] kind = "repeated_index" ->
             mode = MODE_SELECTIVE /\ f.bpi >= 1 /\ Len(ser) > HeaderBits
      [] kind = "bad_vibase" -> TRUE
      [] kind = "bad_bpc" -> TRUE

Malform(kind, f, ser) ==
    CASE kind = "truncated_header" -> Take(ser, HeaderBits - 1)
      [] kind = "truncated_payload" -> Take(ser, Len(ser) - 1)
      [] kind = "trailing_partial_pair" -> ser \o <<1>>
      [] kind = "index_out_of_range" ->
             ser \o Uint(f.bpi, f.slots) \o Uint(f.bpc, 1)
      [] kind = "repeated_index" ->
             ser \o SubSeq(ser, HeaderBits + 1, HeaderBits + f.bpi)
                 \o Uint(f.bpc, 1)
      [] kind = "bad_vibase" -> Replace(ser, 37, Uint(4, 3))
      [] kind = "bad_bpc" -> Replace(ser, 41, Uint(4, 0))

\* the caller's buffer is damaged on its way to deserialize
Tamper(kind) ==
    /\ last.op = "serialize"
    /\ last.raised = "none"
    /\ Applies(kind, self, last.mode, last.bits)
    /\ last' = Call("tamper", "none", FALSE, last.mode,
                    Malform(kind, self, last.bits))
    /\ UNCHANGED <<self, present, illegal, returned>>

\* deserialize(ser) of a damaged buffer; the caller keeps what it returns
DeserializeMalformed ==
    /\ last.op = "tamper"
    /\ LET r == deserialize(last.bits)
       IN  /\ self' = IF r.raised = "none" THEN r.self ELSE self
           /\ returned' = IF r.raised = "none" THEN 0 ELSE returned
           /\ last' = Call("deserialize_malformed", r.raised, FALSE, r.mode,
                           << >>)
    /\ UNCHANGED <<present, illegal>>

Next ==
    \/ \E key \in Keys(self) \cup {None} : Insert(key)
    \/ \E key \in Keys(self) \cup {None} : Remove(key)
    \/ \E key \in Keys(self) \cup {None} : Query(key)
    \/ Size
    \/ Fpr
    \/ Serialize
    \/ Deserialize

Spec == Init /\ [][Next]_vars

\* The filter's calls together with damaged buffers; a run ends with the
\* deserialize of a damaged buffer.
WireConfigsDrawn == {c \in ConfigsDrawn : c[2] = 1}

InitWire == Init /\ <<self.slots, self.hash_functions, self.L, self.bpc>>
                        \in WireConfigsDrawn

NextWire ==
    \/ last.op \notin {"tamper", "deserialize_malformed"} /\ Next
    \/ \E kind \in MalformKinds : Tamper(kind)
    \/ DeserializeMalformed

SpecWire == InitWire /\ [][NextWire]_vars

\* The constructor alone: a call VICBF(slots, hash_functions, vibase, bpc)
\* with arguments it accepts and arguments it rejects.
ArgsDrawn == {-1, 0, 1, 2, 3} \X {-1, 0, 1, 2} \X (0..17) \X {0, 4, 8}

InitNew ==
    /\ self = NoFilter
    /\ present = EmptyBF
    /\ illegal = 0
    /\ returned = 0
    /\ \E args \in ArgsDrawn : last = Call("arguments", "none", FALSE, 0, args)

New ==
    /\ last.op = "arguments"
    /\ LET r == VICBF(last.bits[1], last.bits[2], last.bits[3], last.bits[4])
       IN  /\ self' = r.self
           /\ last' = Call("new", r.raised, FALSE, 0, last.bits)
    /\ UNCHANGED <<present, illegal, returned>>

NextNew == New

SpecNew == InitNew /\ [][NextNew]_vars

\* ------------------------------------------------------------ properties
Stored(f, slot) == slot \in DOMAIN f.BF
Saturated(f, key) ==
    \A slot \in SlotsOf(f, key) : Stored(f, slot) /\ f.BF[slot] = MaxCounter(f)

\* C1: no false negatives.  While remove has only been called on keys the
\* caller holds, every key held (multiset count >= 1) is reported present by
\* query, clamped counters included, for every constructed (m, k, L, b).
C1_NoFalseNegatives ==
    illegal = 0 => \A key \in DOMAIN present : query(self, key).ret

\* C2: remove is all-or-nothing.  A remove call that raises leaves every
\* counter and the entry count as they were before the call.
C2_RemoveAllOrNothing ==
    [][(last'.op = "remove" /\ last'.raised # "none") => self' = self]_vars

\* C3: every stored counter v satisfies 1 <= v <= 2^b - 1 in every state
\* reached by insert, remove and deserialize(serialize(.)).
C3_CounterRange ==
    \A slot \in DOMAIN self.BF :
        1 <= self.BF[slot] /\ self.BF[slot] <= MaxCounter(self)

\* C4: saturation boundary.  Once a key has been inserted and every one of
\* its slots holds 2^b - 1, query reports it present, now and after the
\* next call, and its slots still hold 2^b - 1 after the next call.
C4_SaturationBoundary ==
    [][\A key \in DOMAIN present :
          Saturated(self, key) =>
              /\ query(self, key).ret
              /\ Saturated(self', key)
              /\ query(self', key).ret]_vars

\* C5: saturation is sticky.  A slot holding 2^b - 1 before an insert,
\* remove, query or serialize call holds 2^b - 1 after it.
C5_StickySaturation ==
    [][last'.op \in {"insert", "remove", "query", "serialize"} =>
          \A slot \in DOMAIN self.BF :
              self.BF[slot] = MaxCounter(self) =>
                  /\ slot \in DOMAIN self'.BF
                  /\ self'.BF[slot] = MaxCounter(self')]_vars

\* C5 witness: a remove returned on a one-slot filter whose counters never
\* exceed 2^b - 1, and the slot holds 2^b - 1: the remove met it saturated.
C5_Witness ==
    /\ last.op = "remove" /\ last.raised = "none"
    /\ self.slots = 1 /\ 3 * self.L - 1 <= MaxCounter(self)
    /\ Stored(self, 0) /\ self.BF[0] = MaxCounter(self)

\* j inserts of key, and j removes of key (stopping at the first raise)
RECURSIVE InsertTimes(_, _, _)
InsertTimes(f, key, j) ==
    IF j = 0 THEN f ELSE InsertTimes(insert(f, key).self, key, j - 1)

RECURSIVE RemoveTimes(_, _, _)
RemoveTimes(f, key, j) ==
    IF j = 0 THEN [raised |-> "none", self |-> f]
    ELSE LET r == remove(f, key)
         IN  IF r.raised # "none" THEN r
             ELSE RemoveTimes(r.self, key, j - 1)

\* no slot of key reaches 2^b - 1 during j inserts of key into f
NoSaturation(f, key, j) ==
    \A n \in 1..j : \A slot \in SlotsOf(f, key) :
        InsertTimes(f, key, n).BF[slot] < MaxCounter(f)

\* C6: insert and remove are inverse without saturation.  From every
\* reachable state, j inserts of a key none of whose slots reaches 2^b - 1,
\* followed by j removes of it, raise nothing and leave the counter dict
\* (stored slots and values) and the entry count as they were.
C6_InsertRemoveInverse ==
    \A key \in Keys(self) : \A j \in 1..MaxRepeat :
        NoSaturation(self, key, j) =>
            LET r == RemoveTimes(InsertTimes(self, key, j), key, j)
            IN  r.raised = "none" /\ r.self = self

\* C7: the serialization round trip preserves membership.  Whenever
\* g = deserialize(serialize(f)) is returned, query gives the same answer on
\* g as on f for every key, in both encodings.
C7_RoundTripMembership ==
    \A order \in Orders(DOMAIN self.BF) :
        LET g == RoundTrip(self, order)
        IN  g.raised = "none" =>
                \A key \in Keys(self) :
                    query(g.self, key).ret = query(self, key).ret

\* C7 witness: a filter came back from a DUMP_ALL buffer; it contains a key
\* the caller holds and rejects another key.
C7_Witness ==
    /\ last.op = "deserialize" /\ last.raised = "none"
    /\ last.mode = MODE_DUMP_ALL
    /\ \E key \in DOMAIN present : query(self, key).ret
    /\ \E key \in Keys(self) : ~query(self, key).ret

NonZero(f) == {slot \in DOMAIN f.BF : f.BF[slot] # 0}

\* C8: mode selection.  In every reachable state, filters obtained from
\* deserialize included, a buffer serialize returns is SELECTIVE exactly when
\* (number of non-zero counters) * (ceil(log2 m) + b) < m * b, and DUMP_ALL
\* otherwise, equal costs included.
C8_ModeSelection ==
    (last.op = "serialize" /\ last.raised = "none") =>
        (last.bits[1] = MODE_SELECTIVE <=>
            Cardinality(NonZero(self)) * (CeilLog2(self.slots) + self.bpc)
                < self.slots * self.bpc)

\* C9: serialize succeeds for every filter the constructor accepts, and the
\* header it writes reads back as the filter's m, k, L and b.
C9_SerializeHeaderRoundTrip ==
    last.op = "serialize" =>
        /\ last.raised = "none"
        /\ LET h == parse_header(last.bits)
           IN  /\ h.slots = self.slots
               /\ h.hash_functions = self.hash_functions
               /\ h.vibase = self.L
               /\ h.bpc = self.bpc

\* C10: deserialize rejects malformed input.  For a buffer with a truncated
\* header or payload, a trailing partial pair, a selective index >= m, a
\* repeated selective index, an L tag outside {2, 4, 8, 16} or an
\* unsupported b, deserialize raises and returns no filter.
C10_DeserializeRejectsMalformed ==
    last.op = "deserialize_malformed" => last.raised # "none"

\* C11: entry count accounting.  In every state size() equals the number of
\* insert calls that returned minus the number of remove calls that returned
\* on the object; a remove that raises changes neither, so size() is the
\* same after it.
C11_EntryCount == size(self) = returned

\* C11 witness: a remove raised on a filter that holds keys, and size() is
\* the number of keys held.
C11_Witness ==
    /\ last.op = "remove" /\ last.raised = "ValueError"
    /\ size(self) >= 1 /\ size(self) = Held(present)

\* n / k rounded to the nearest integer
Nearest(n, k) == (2 * n + k) \div (2 * k)

\* C12: after deserialization the entry count is reconstructed.  The filter
\* g a deserialize returns has size(g) = (number of non-zero counters of g)
\* / k rounded to the nearest integer.
C12_EntryCountReconstructed ==
    (last.op = "deserialize" /\ last.raised = "none") =>
        size(self) = Nearest(Cardinality(NonZero(self)), self.hash_functions)

\* the sum of the increments of key at the hash indices i .. k - 1 whose
\* slot is slot
RECURSIVE KeyDelta(_, _, _, _)
KeyDelta(f, key, slot, i) ==
    IF i = f.hash_functions THEN 0
    ELSE LET si == calculate_slot_and_increment(f, key, i)
         IN  (IF si[1] = slot THEN si[2] ELSE 0) + KeyDelta(f, key, slot, i + 1)

\* the sum of delta(x, i) over the occurrences of the keys x of S in bag and
\* the indices i with slot(x, i) = slot
RECURSIVE Implied(_, _, _, _)
Implied(f, bag, S, slot) ==
    IF S = {} THEN 0
    ELSE LET key == CHOOSE x \in S : TRUE
         IN  bag[key] * KeyDelta(f, key, slot, 0)
                 + Implied(f, bag, S \ {key}, slot)

\* C13: counter exactness under legal use.  While remove has only been
\* called on keys the caller holds, every slot's counter (0 when absent) is
\* 2^b - 1 or the sum of the increments of the keys held that map to it.
C13_CounterExactness ==
    illegal = 0 =>
        \A slot \in 0..(self.slots - 1) :
            \/ Lookup(self.BF, slot) = MaxCounter(self)
            \/ Lookup(self.BF, slot) = Implied(self, present, DOMAIN present, slot)

\* C13 witness: after a remove that returned, one key is held and its slots
\* hold the sum of its increments, below 2^b - 1.
C13_Witness ==
    /\ illegal = 0 /\ last.op = "remove" /\ last.raised = "none"
    /\ Held(present) = 1
    /\ \E key \in DOMAIN present : \A slot \in SlotsOf(self, key) :
          /\ Stored(self, slot)
          /\ self.BF[slot] = KeyDelta(self, key, slot, 0)
          /\ self.BF[slot] < MaxCounter(self)

\* C14: insert(None), remove(None) and query(None) each raise ValueError in
\* every reachable state and leave the counters and the entry count
\* unchanged.
C14_NoneRaises ==
    /\ insert(self, None).raised = "ValueError"
    /\ insert(self, None).self = self
    /\ remove(self, None).raised = "ValueError"
    /\ remove(self, None).self = self
    /\ query(self, None).raised = "ValueError"

\* C14 witness: query(None) raised on a filter that holds a key.
C14_Witness ==
    /\ last.op = "query" /\ last.raised = "ValueError"
    /\ self.BF # EmptyBF /\ Held(present) >= 1

\* C15: the constructor raises ValueError and creates no filter whenever
\* m < 1, k < 1 or L is not one of 2, 4, 8, 16, and for every other
\* (m, k, L) returns an empty filter of these parameters with n = 0 and no
\* counters.
C15_ConstructorValidation ==
    last.op = "new" =>
        IF last.bits[1] < 1 \/ last.bits[2] < 1 \/ last.bits[3] \notin {2, 4, 8, 16}
        THEN last.raised = "ValueError" /\ self = NoFilter
        ELSE /\ last.raised = "none"
             /\ self.slots = last.bits[1]
             /\ self.hash_functions = last.bits[2]
             /\ self.L = last.bits[3]
             /\ self.bpc = last.bits[4]
             /\ self.entries = 0
             /\ self.BF = EmptyBF

\* C15 witness: a call with m >= 1 and k >= 1 was rejected for its L.
C15_Witness ==
    /\ last.op = "new" /\ last.raised = "ValueError"
    /\ last.bits[1] >= 1 /\ last.bits[2] >= 1

\* the closed form (1 - p0 - p1 - p2)^k at (m, n, k, L), C(a, 2) = a(a-1)/2
ClosedForm(m, n, k, L) ==
    LET a == n * k
        q == Frac(m - 1, m)
        p0 == FPow(q, a)
        p1 == FMul(FMul(Frac(L - 1, L), Frac(a, m)), FPow(q, a - 1))
        p2 == FMul(FMul(Frac((L - 1) * (L + 1), 6 * L * L),
                        Frac(a * (a - 1), 2 * m * m)),
                   FPow(q, a - 2))
    IN  FPow(FSub(FSub(FSub(<<1, 1>>, p0), p1), p2), k)

\* C16: in every reachable state FPR() returns the closed-form estimate
\* (1 - p0 - p1 - p2)^k evaluated at (m, max(n, 0), k, L); a negative entry
\* count gives the result of n = 0.
C16_FPRClosedForm ==
    LET r == FPR(self)
        n == IF self.entries > 0 THEN self.entries ELSE 0
    IN  /\ r.raised = "none"
        /\ r.val = ClosedForm(self.slots, n, self.hash_functions, self.L)
        /\ self.entries < 0 => r = FPR([self EXCEPT !.entries = 0])

\* C17: query decision rule.  For a key x, query(x) returns true if and only
\* if at every hash index i the counter v at slot(x, i) (0 if absent)
\* satisfies v >= delta(x, i) and (v - delta(x, i) = 0 or
\* v - delta(x, i) >= L).
C17_QueryRule ==
    \A key \in Keys(self) :
        /\ query(self, key).raised = "none"
        /\ query(self, key).ret <=>
              \A i \in 0..(self.hash_functions - 1) :
                  LET si == calculate_slot_and_increment(self, key, i)
                      v == Lookup(self.BF, si[1])
                  IN  v >= si[2] /\ (v - si[2] = 0 \/ v - si[2] >= self.L)

\* C17 witness: a query returned False on a filter in which some key has a
\* slot whose counter leaves a remainder strictly between 0 and L, while
\* another key is reported present.
C17_Witness ==
    /\ last.op = "query" /\ last.raised = "none" /\ ~last.ret
    /\ \E key \in Keys(self) : \E i \in 0..(self.hash_functions - 1) :
          LET si == calculate_slot_and_increment(self, key, i)
              v == Lookup(self.BF, si[1])
          IN  v - si[2] > 0 /\ v - si[2] < self.L
    /\ \E key \in Keys(self) : query(self, key).ret

\* the counters after the hash indices i .. k - 1 of key are processed on
\* BF: a slot holding 2^b - 1 is left unchanged, a slot holding delta is
\* deleted, a slot holding more than delta is decreased by delta
RECURSIVE Removed(_, _, _, _)
Removed(f, key, BF, i) ==
    IF i = f.hash_functions THEN BF
    ELSE LET si == calculate_slot_and_increment(f, key, i)
             v == Lookup(BF, si[1])
         IN  IF v = MaxCounter(f) THEN Removed(f, key, BF, i + 1)
             ELSE IF v = si[2] THEN Removed(f, key, Del(BF, si[1]), i + 1)
             ELSE Removed(f, key, Put(BF, si[1], v - si[2]), i + 1)

\* C18: effect of a successful remove(x).  The counters after it are those
\* obtained by processing i = 0..k-1 (a slot holding 2^b - 1 unchanged, a
\* slot holding delta deleted, a slot holding more decreased by delta); every
\* slot that is not a slot of x is unchanged; n decreases by exactly one and
\* the parameters are unchanged.
C18_RemoveEffect ==
    [][\A key \in Keys(self) :
          (Remove(key) /\ last'.raised = "none") =>
              /\ self'.BF = Removed(self, key, self.BF, 0)
              /\ \A slot \in (DOMAIN self.BF \cup DOMAIN self'.BF)
                                 \ SlotsOf(self, key) :
                    /\ slot \in DOMAIN self.BF /\ slot \in DOMAIN self'.BF
                    /\ self'.BF[slot] = self.BF[slot]
              /\ self'.entries = self.entries - 1
              /\ self' = [self EXCEPT !.BF = self'.BF,
                                      !.entries = self'.entries]]_vars

\* C18 witness: a remove returned and left a slot holding 2^b - 1 next to a
\* stored slot holding less.
C18_Witness ==
    /\ last.op = "remove" /\ last.raised = "none"
    /\ \E s1, s2 \in DOMAIN self.BF :
          /\ self.BF[s1] = MaxCounter(self)
          /\ self.BF[s2] > 0 /\ self.BF[s2] < MaxCounter(self)

\* C19: in every reachable state, filters returned by deserialize included,
\* a slot index is stored if and only if its counter is non-zero: no stored
\* counter is 0, and every stored index lies in [0, m).
C19_StoredIffNonZero ==
    \A slot \in DOMAIN self.BF :
        self.BF[slot] # 0 /\ slot \in 0..(self.slots - 1)

\* C20: read-only operations.  query, size, FPR and serialize leave the
\* counters, the entry count and the parameters m, k, L, b unchanged, so a
\* call repeated after them reads the same object and returns the same
\* result (size and FPR are compared, query and serialize are functions of
\* the unchanged object).
C20_ReadOnly ==
    [][last'.op \in {"query", "size", "FPR", "serialize"} =>
          /\ self' = self
          /\ size(self') = size(self)
          /\ FPR(self') = FPR(self)]_vars

\* C20 witness: FPR was called on a filter whose entry count is negative and
\* that holds counters, and the count is still negative.
C20_Witness ==
    /\ last.op = "FPR" /\ last.raised = "none"
    /\ self.entries < 0 /\ self.BF # EmptyBF

\* every slot's counter, an absent one read as 0, is the same in f and g
SameCounters(f, g) ==
    \A slot \in 0..(f.slots - 1) : Lookup(f.BF, slot) = Lookup(g.BF, slot)

\* f and g have the same counters, and up to depth further calls applied to
\* both give the same outcome and leave the same counters
RECURSIVE SameUnder(_, _, _)
SameUnder(f, g, depth) ==
    /\ SameCounters(f, g)
    /\ depth > 0 =>
          \A key \in Keys(f) :
              /\ query(f, key) = query(g, key)
              /\ SameUnder(insert(f, key).self, insert(g, key).self, depth - 1)
              /\ remove(f, key).raised = remove(g, key).raised
              /\ SameUnder(remove(f, key).self, remove(g, key).self, depth - 1)

\* C21: a round-tripped filter behaves like the original.  For every
\* reachable f and g = deserialize(serialize(f)), in both encodings, insert,
\* remove and query calls applied alike to f and g give the same outcome
\* (query result, raise of remove) and leave every slot's counter (absent
\* read as 0) equal.
C21_RoundTripBehaviour ==
    \A order \in Orders(DOMAIN self.BF) :
        LET g == RoundTrip(self, order)
        IN  g.raised = "none" => SameUnder(self, g.self, MaxTwin)
====
